---- MODULE Spec2Model ----
(***************************************************************************)
(* Model of main.py: the via-server updater for the child rooms of a       *)
(* Matrix space.  update_via walks the children of the root space, fetches *)
(* each room's joined members and power levels, derives the via servers    *)
(* and writes the m.space.child event back when the set changed.           *)
(***************************************************************************)
EXTENDS Integers, Sequences, FiniteSets, TLC

(* ------------------------------------------------------------------ *)
(* Bounds                                                               *)
(* ------------------------------------------------------------------ *)
MaxLen == 5          \* longest server list handed to most_common_servers
MaxN == 3            \* largest n / min_occurrences handed to most_common_servers
MaxDict == 3         \* largest member_levels mapping
MaxSelMembers == 3   \* largest membership of the selection inputs
MaxOptimal == 3      \* largest optimal_via_servers of the selection inputs
MaxCfgN == 2         \* largest most_common_servers / min_users_per_server setting
MaxChildren == 3     \* most children_state entries of the root space
MaxRuns == 2         \* how often update_via is run in succession

(* ------------------------------------------------------------------ *)
(* Values                                                               *)
(* ------------------------------------------------------------------ *)
\* A user id is the sequence of its pieces, "a:X" = <<"a", ":", "X">>; a
\* server name is the sequence of its pieces, "X" = <<"X">>.
X == <<"X">>
Y == <<"Y">>
Z == <<"Z">>
W == <<"W">>
Servers == {X, Y, Z}
Uid(l, s) == <<l, ":">> \o s

Min(a, b) == IF a < b THEN a ELSE b
Max(a, b) == IF a > b THEN a ELSE b
Range(s) == {s[i] : i \in 1..Len(s)}
NoDup(s) == \A i, j \in 1..Len(s) : i # j => s[i] # s[j]
SeqsUpTo(S, k) == UNION {[1..l -> S] : l \in 0..k}

\* list(set(...)): every order of the elements is a possible result
ListOfSet(S) == {s \in [1..Cardinality(S) -> S] : Range(s) = S}

(* ------------------------------------------------------------------ *)
(* get_user_homeserver                                                  *)
(* ------------------------------------------------------------------ *)
RECURSIVE Split(_, _)
\* str.split(sep): the pieces between the separators
Split(s, sep) ==
    IF \A i \in 1..Len(s) : s[i] # sep THEN <<s>>
    ELSE LET k == CHOOSE i \in 1..Len(s) :
                      s[i] = sep /\ \A j \in 1..(i-1) : s[j] # sep
         IN <<SubSeq(s, 1, k-1)>> \o Split(SubSeq(s, k+1, Len(s)), sep)

get_user_homeserver(user_id) == Split(user_id, ":")[2]

(* ------------------------------------------------------------------ *)
(* most_common_servers                                                  *)
(* ------------------------------------------------------------------ *)
CountOf(lst, x) == Cardinality({i \in 1..Len(lst) : lst[i] = x})

RECURSIVE CounterKeys(_)
\* Counter(lst): the keys in order of first occurrence
CounterKeys(lst) ==
    IF lst = <<>> THEN <<>>
    ELSE LET front == SubSeq(lst, 1, Len(lst) - 1)
             last == lst[Len(lst)]
         IN IF last \in Range(front) THEN CounterKeys(front)
            ELSE Append(CounterKeys(front), last)

RECURSIVE InsertDesc(_, _, _)
\* stable insertion of x behind every element whose count is >= x's
InsertDesc(sorted, x, lst) ==
    IF sorted = <<>> THEN <<x>>
    ELSE IF CountOf(lst, sorted[1]) >= CountOf(lst, x)
         THEN <<sorted[1]>> \o InsertDesc(Tail(sorted), x, lst)
         ELSE <<x>> \o sorted

RECURSIVE SortedDesc(_, _)
\* sorted(items, key=count, reverse=True): stable, descending by count
SortedDesc(keys, lst) ==
    IF keys = <<>> THEN <<>>
    ELSE InsertDesc(SortedDesc(SubSeq(keys, 1, Len(keys) - 1), lst),
                    keys[Len(keys)], lst)

\* s[:n]
Slice(s, n) ==
    IF n >= 0 THEN SubSeq(s, 1, Min(n, Len(s)))
    ELSE SubSeq(s, 1, Max(0, Len(s) + n))

\* variant: the items are not filtered by their count
FilteredItemsNoMin(lst, min_occurrences) == CounterKeys(lst)

FilteredItems(lst, min_occurrences) ==
    SelectSeq(CounterKeys(lst), LAMBDA k : CountOf(lst, k) >= min_occurrences)

most_common_servers(lst, n, min_occurrences) ==
    Slice(SortedDesc(FilteredItems(lst, min_occurrences), lst), n)

(* ------------------------------------------------------------------ *)
(* get_highest_level_members                                            *)
(* ------------------------------------------------------------------ *)
\* member_levels is a dict: a sequence of <<key, value>> with distinct keys
threshold == 50

MaxValue(member_levels) ==
    CHOOSE v \in {member_levels[i][2] : i \in 1..Len(member_levels)} :
        \A i \in 1..Len(member_levels) : member_levels[i][2] <= v

RECURSIVE KeysWithValue(_, _)
KeysWithValue(member_levels, v) ==
    IF member_levels = <<>> THEN <<>>
    ELSE LET rest == KeysWithValue(Tail(member_levels), v)
         IN IF member_levels[1][2] = v THEN <<member_levels[1][1]>> \o rest
            ELSE rest

\* variant: a maximum equal to the threshold already counts
get_highest_level_members_inclusive(member_levels) ==
    LET highest_value == MaxValue(member_levels)
    IN IF highest_value < threshold THEN <<>>
       ELSE KeysWithValue(member_levels, highest_value)

get_highest_level_members(member_levels) ==
    LET highest_value == MaxValue(member_levels)
    IN IF highest_value <= threshold THEN <<>>
       ELSE KeysWithValue(member_levels, highest_value)

(* ------------------------------------------------------------------ *)
(* update_via, lines 57-103: the via servers of one room                *)
(* ------------------------------------------------------------------ *)
\* dict.get(key, default) of a dict with string keys (a record)
DictGet(d, k, default) == IF k \in DOMAIN d THEN d[k] ELSE default

\* dict.get(key, default) of a dict kept as a sequence of <<key, value>>
PairsGet(d, k, default) ==
    IF \E j \in 1..Len(d) : d[j][1] = k
    THEN d[CHOOSE j \in 1..Len(d) : d[j][1] = k][2]
    ELSE default

\* [get_user_homeserver(member.user_id) for member in members]
AllServers(members) == [j \in 1..Len(members) |-> get_user_homeserver(members[j])]

\* {user_id: users.get(user_id, users_default) for member in members}
MemberLevels(members, power_levels) ==
    [j \in 1..Len(members) |->
        <<members[j],
          PairsGet(DictGet(power_levels, "users", <<>>), members[j],
                   DictGet(power_levels, "users_default", 0))>>]

HighestLevelServers(members, power_levels) ==
    LET highest_level_members ==
            get_highest_level_members(MemberLevels(members, power_levels))
    IN [j \in 1..Len(highest_level_members) |->
            get_user_homeserver(highest_level_members[j])]

\* variant: the configured servers are taken as they are
ValidAdditionalServersUnfiltered(cfg, all_servers) == cfg.additional_servers

ValidAdditionalServers(cfg, all_servers) ==
    SelectSeq(cfg.additional_servers, LAMBDA server : server \in Range(all_servers))

\* set(valid_additional_servers + common_servers + highest_level_servers)
CandidateSet(cfg, members, power_levels) ==
    LET all_servers == AllServers(members)
    IN Range(ValidAdditionalServers(cfg, all_servers)
             \o most_common_servers(all_servers, cfg.most_common_servers,
                                    cfg.min_users_per_server)
             \o HighestLevelServers(members, power_levels))

\* the condition of the top-up re-run
NeedsTopUp(cfg, candidate) ==
    /\ Cardinality(candidate) < cfg.optimal_via_servers
    /\ cfg.ignore_requirementrs_to_reach_optimum

\* variant: the re-run keeps the configured count
TopUpConfiguredCount(cfg, members, candidate) ==
    Range(most_common_servers(AllServers(members), cfg.most_common_servers, 1))
        \cup candidate

TopUp(cfg, members, candidate) ==
    LET server_count == Max(cfg.most_common_servers, cfg.optimal_via_servers)
    IN Range(most_common_servers(AllServers(members), server_count, 1)) \cup candidate

\* the set of the final list `servers`
ViaSet(cfg, members, power_levels) ==
    LET candidate == CandidateSet(cfg, members, power_levels)
    IN IF NeedsTopUp(cfg, candidate) THEN TopUp(cfg, members, candidate)
       ELSE candidate

(* ------------------------------------------------------------------ *)
(* State                                                                *)
(* ------------------------------------------------------------------ *)
VARIABLES
    call,       \* a direct call of one of the functions: its name and arguments
    ret,        \* what that call returned
    config,     \* config_toml["main"]
    space,      \* homeserver: the children_state of the root space
    joined,     \* homeserver: room id -> joined members
    power,      \* homeserver: room id -> content of m.room.power_levels
    run,        \* how often update_via was started
    pc,         \* where update_via stands
    error,      \* the exception that ended update_via
    children,   \* space["children_state"] of the fetched hierarchy
    i,          \* position of the loop in children
    members,    \* members_resp.members of the current room
    servers,    \* the list `servers` of the current room
    requests,   \* requests issued by this run, in order
    output,     \* lines printed by this run, in order
    clean       \* the previous run ended without a failed request (history)

fnvars == <<call, ret>>
runvars == <<config, space, joined, power, run, pc, error, children, i, members,
             servers, requests, output, clean>>
vars == <<call, ret, config, space, joined, power, run, pc, error, children, i,
          members, servers, requests, output, clean>>

(* ------------------------------------------------------------------ *)
(* Direct calls of the functions                                        *)
(* ------------------------------------------------------------------ *)
Levels == {0, 50, 51, 100}
FnUsers == {Uid("a", X), Uid("b", X), Uid("c", Y), Uid("d", Z)}

\* dicts user id -> level with 0..MaxDict entries
LevelDicts ==
    {d \in SeqsUpTo(FnUsers \X Levels, MaxDict) :
        \A j, k \in 1..Len(d) : j # k => d[j][1] # d[k][1]}

\* contents of m.room.power_levels
PowerLevelContents ==
    { [ban |-> 50],
      [ban |-> 50, users |-> <<<<Uid("a", X), 100>>>>, users_default |-> 0],
      [ban |-> 50, users |-> <<<<Uid("a", X), 100>>, <<Uid("c", Y), 100>>>>],
      [ban |-> 50, users |-> <<<<Uid("d", Z), 50>>>>, users_default |-> 0],
      [ban |-> 50, users |-> <<<<Uid("a", X), 0>>>>, users_default |-> 100],
      [ban |-> 50, users |-> <<<<Uid("c", Y), 75>>, <<Uid("a", X), 100>>>>,
       users_default |-> 50] }

MemberLists == {m \in SeqsUpTo(FnUsers, MaxSelMembers) : m # <<>> /\ NoDup(m)}

SelectionConfigs ==
    [most_common_servers : 0..MaxCfgN,
     min_users_per_server : 1..MaxCfgN,
     optimal_via_servers : 0..MaxOptimal,
     ignore_requirementrs_to_reach_optimum : BOOLEAN,
     additional_servers : {<<>>, <<Z>>, <<X, W>>}]

Calls ==
    [fn : {"most_common_servers"}, lst : SeqsUpTo(Servers, MaxLen),
     n : 0..MaxN, min_occurrences : 0..MaxN]
    \cup [fn : {"get_highest_level_members"}, member_levels : LevelDicts]
    \cup [fn : {"via"}, config : SelectionConfigs, members : MemberLists,
          power_levels : PowerLevelContents]

NoCall == [fn |-> "none"]
NoRet == [done |-> FALSE]

CallMostCommonServers ==
    /\ call.fn = "most_common_servers"
    /\ ~ret.done
    /\ ret' = [done |-> TRUE, raised |-> FALSE,
               value |-> most_common_servers(call.lst, call.n, call.min_occurrences)]
    /\ UNCHANGED <<call, runvars>>

\* max() of an empty dict raises ValueError
CallGetHighestLevelMembers ==
    /\ call.fn = "get_highest_level_members"
    /\ ~ret.done
    /\ ret' = IF call.member_levels = <<>>
              THEN [done |-> TRUE, raised |-> TRUE]
              ELSE [done |-> TRUE, raised |-> FALSE,
                    value |-> get_highest_level_members(call.member_levels)]
    /\ UNCHANGED <<call, runvars>>

\* lines 57-103 of update_via for one room
CallVia ==
    /\ call.fn = "via"
    /\ ~ret.done
    /\ LET candidate == CandidateSet(call.config, call.members, call.power_levels)
       IN ret' = [done |-> TRUE, raised |-> FALSE,
                  highest_level_servers |->
                      HighestLevelServers(call.members, call.power_levels),
                  candidate |-> candidate,
                  topped_up |-> NeedsTopUp(call.config, candidate),
                  servers |-> ViaSet(call.config, call.members, call.power_levels)]
    /\ UNCHANGED <<call, runvars>>

Idle ==
    /\ config = [none |-> TRUE]
    /\ space = <<>> /\ joined = <<>> /\ power = <<>>
    /\ run = 0 /\ pc = "idle" /\ error = "none"
    /\ children = <<>> /\ i = 0 /\ members = <<>> /\ servers = <<>>
    /\ requests = <<>> /\ output = <<>> /\ clean = FALSE

FnInit == call \in Calls /\ ret = NoRet /\ Idle
FnNext == CallMostCommonServers \/ CallGetHighestLevelMembers \/ CallVia
FnSpec == FnInit /\ [][FnNext]_vars

(* ------------------------------------------------------------------ *)
(* The homeserver and the configuration of a run                        *)
(* ------------------------------------------------------------------ *)
RoomId(k) == <<"!r", k>>
NoKey == <<>>                 \* the empty state_key
Vias == {<<X>>, <<Y, X>>}

\* the children_state entries the space may hold at position k
EntriesAt(k) ==
    [type : {"m.space.child"}, state_key : {RoomId(k)},
     content : [suggested : {k = 1}, via : Vias]]
    \cup {[type |-> "m.space.child", state_key |-> NoKey,
           content |-> [suggested |-> FALSE, via |-> <<X>>]],
          [type |-> "m.room.topic", state_key |-> RoomId(k),
           content |-> [suggested |-> FALSE, via |-> <<X>>]]}

\* a (type, state_key) pair names one state event
Spaces ==
    {sp \in UNION {[1..l -> UNION {EntriesAt(k) : k \in 1..MaxChildren}] :
                        l \in 1..MaxChildren} :
        /\ \A k \in 1..Len(sp) : sp[k] \in EntriesAt(k)
        /\ \A j, k \in 1..Len(sp) :
              j # k => <<sp[j].type, sp[j].state_key>> # <<sp[k].type, sp[k].state_key>>}

RoomProfiles ==
    << [members |-> <<Uid("a", X), Uid("b", X), Uid("c", Y)>>,
        power |-> [ban |-> 50, users |-> <<<<Uid("a", X), 100>>>>, users_default |-> 0]],
       [members |-> <<Uid("c", Y), Uid("d", Z)>>,
        power |-> [ban |-> 50]],
       [members |-> <<Uid("d", Z), Uid("a", X), Uid("b", X)>>,
        power |-> [ban |-> 50,
                   users |-> <<<<Uid("a", X), 100>>, <<Uid("d", Z), 100>>>>]] >>

RoomIds == {RoomId(k) : k \in 1..MaxChildren}
IndexOf(room_id) == CHOOSE k \in 1..MaxChildren : RoomId(k) = room_id
\* room k has profile k, beyond the last profile the first one again
ProfileOf(room_id) == RoomProfiles[((IndexOf(room_id) - 1) % Len(RoomProfiles)) + 1]

Selections ==
    { [most_common_servers |-> 2, min_users_per_server |-> 2, optimal_via_servers |-> 1,
       ignore_requirementrs_to_reach_optimum |-> FALSE, additional_servers |-> <<>>],
      [most_common_servers |-> 1, min_users_per_server |-> 1, optimal_via_servers |-> 2,
       ignore_requirementrs_to_reach_optimum |-> TRUE, additional_servers |-> <<Z>>],
      [most_common_servers |-> 2, min_users_per_server |-> 2, optimal_via_servers |-> 3,
       ignore_requirementrs_to_reach_optimum |-> TRUE, additional_servers |-> <<X, W>>] }

Configs ==
    {[most_common_servers |-> sel.most_common_servers,
      min_users_per_server |-> sel.min_users_per_server,
      optimal_via_servers |-> sel.optimal_via_servers,
      ignore_requirementrs_to_reach_optimum |-> sel.ignore_requirementrs_to_reach_optimum,
      additional_servers |-> sel.additional_servers,
      shuffle_order |-> f[1], dry_run |-> f[2], ignore_errors |-> f[3]] :
        sel \in Selections, f \in BOOLEAN \X BOOLEAN \X BOOLEAN}

(* ------------------------------------------------------------------ *)
(* update_via                                                           *)
(* ------------------------------------------------------------------ *)
\* lines 39-45: the entries the loop works on
Qualifies(room) == room.type = "m.space.child" /\ room.state_key # NoKey

\* variant: the lists are compared, not their sets
ViaMatchesOrdered(via, server_list) == via = server_list

\* line 106
ViaMatches(via, server_list) == Range(via) = Range(server_list)

\* variant: the dry_run setting is not looked at
ShouldPutAlways(cfg) == TRUE

\* line 115
ShouldPut(cfg) == ~cfg.dry_run

\* lines 110-111: random.shuffle(servers), or the list as it is
Shuffled(cfg, server_list) ==
    IF cfg.shuffle_order THEN ListOfSet(Range(server_list)) ELSE {server_list}

Line(k, text) == [child |-> k, text |-> text]

\* variant: only the status line is printed
UpdateLinesStatusOnly(k, status) == <<Line(k, status)>>

\* lines 123/126/130 and 131-132: the lines printed on the update path
UpdateLines(k, status) == <<Line(k, status), Line(k, "before"), Line(k, "after")>>

\* variant: the published list is sent back
PutContentStale(room, server_list) ==
    [suggested |-> room.content.suggested, via |-> room.content.via]

\* line 113
PutContent(room, server_list) ==
    [suggested |-> room.content.suggested, via |-> server_list]

\* the homeserver stores the content under (m.space.child, state_key)
StoreChild(sp, state_key, content) ==
    [k \in 1..Len(sp) |->
        IF sp[k].type = "m.space.child" /\ sp[k].state_key = state_key
        THEN [sp[k] EXCEPT !.content = content] ELSE sp[k]]

Abort(exception) ==
    /\ pc' = "aborted"
    /\ error' = exception

NextRoom ==
    /\ pc' = "loop"
    /\ i' = i + 1
    /\ members' = <<>>
    /\ servers' = <<>>

\* lines 29-35
GetHierarchy ==
    /\ pc = "start"
    /\ \E ok \in BOOLEAN :
         /\ requests' = Append(requests, [op |-> "space_get_hierarchy", child |-> 0, ok |-> ok])
         /\ IF ok
            THEN /\ children' = space
                 /\ pc' = "loop"
                 /\ i' = 1
                 /\ UNCHANGED error
            ELSE /\ Abort("ErrorGettingSpace")
                 /\ UNCHANGED <<children, i>>
    /\ UNCHANGED <<fnvars, config, space, joined, power, run, members, servers, output, clean>>

\* lines 38-45: entries of another type or with an empty state_key
SkipEntry ==
    /\ pc = "loop"
    /\ i <= Len(children)
    /\ ~Qualifies(children[i])
    /\ i' = i + 1
    /\ UNCHANGED <<fnvars, config, space, joined, power, run, pc, error, children,
                   members, servers, requests, output, clean>>

\* lines 47-55
JoinedMembers ==
    /\ pc = "loop"
    /\ i <= Len(children)
    /\ Qualifies(children[i])
    /\ \E ok \in BOOLEAN :
         /\ requests' = Append(requests, [op |-> "joined_members", child |-> i, ok |-> ok])
         /\ IF ok
            THEN /\ members' = joined[children[i].state_key]
                 /\ pc' = "levels"
                 /\ UNCHANGED <<error, i, servers, output>>
            ELSE IF config.ignore_errors
                 THEN /\ output' = Append(output, Line(i, "skip_error"))
                      /\ NextRoom
                      /\ UNCHANGED error
                 ELSE /\ Abort("TypeError")      \* raise of a response object
                      /\ UNCHANGED <<i, members, servers, output>>
    /\ UNCHANGED <<fnvars, config, space, joined, power, run, children, clean>>

\* lines 57-113: power levels, selection, comparison, shuffle, dry run
PowerLevels ==
    /\ pc = "levels"
    /\ \E ok \in BOOLEAN :
         /\ requests' = Append(requests, [op |-> "room_get_state_event", child |-> i, ok |-> ok])
         /\ IF ~ok
            THEN \* levels_response.content of an error response: AttributeError
                 /\ Abort("AttributeError")
                 /\ UNCHANGED <<i, members, servers, output>>
            ELSE LET room == children[i]
                     via_set == ViaSet(config, members, power[room.state_key])
                 IN \E as_list \in ListOfSet(via_set) :
                      IF ViaMatches(room.content.via, as_list)
                      THEN /\ output' = Append(output, Line(i, "skip_match"))
                           /\ NextRoom
                           /\ UNCHANGED error
                      ELSE \E shuffled \in Shuffled(config, as_list) :
                             IF ShouldPut(config)
                             THEN /\ servers' = shuffled
                                  /\ pc' = "put"
                                  /\ UNCHANGED <<error, i, members, output>>
                             ELSE /\ output' = output \o UpdateLines(i, "dry_run")
                                  /\ NextRoom
                                  /\ UNCHANGED error
    /\ UNCHANGED <<fnvars, config, space, joined, power, run, children, clean>>

\* lines 116-132
PutState ==
    /\ pc = "put"
    /\ LET room == children[i]
           content == PutContent(room, servers)
       IN \E ok \in BOOLEAN :
            /\ requests' = Append(requests,
                   [op |-> "room_put_state", child |-> i, ok |-> ok,
                    state_key |-> room.state_key, content |-> content])
            /\ IF ok
               THEN /\ space' = StoreChild(space, room.state_key, content)
                    /\ output' = output \o UpdateLines(i, "updated")
                    /\ NextRoom
                    /\ UNCHANGED error
               ELSE IF config.ignore_errors
                    THEN /\ output' = output \o UpdateLines(i, "could_not_update")
                         /\ NextRoom
                         /\ UNCHANGED <<error, space>>
                    ELSE /\ Abort("ErrorUpdatingState")
                         /\ UNCHANGED <<i, members, servers, output, space>>
    /\ UNCHANGED <<fnvars, config, joined, power, run, children, clean>>

\* the loop is over: update_via returns
Return ==
    /\ pc = "loop"
    /\ i > Len(children)
    /\ pc' = "done"
    /\ UNCHANGED <<fnvars, config, space, joined, power, run, error, children, i,
                   members, servers, requests, output, clean>>

\* the script is started once more, with the same configuration
RunAgain ==
    /\ pc \in {"done", "aborted"}
    /\ run < MaxRuns
    /\ run' = run + 1
    /\ clean' = (pc = "done" /\ \A k \in 1..Len(requests) : requests[k].ok)
    /\ pc' = "start"
    /\ error' = "none"
    /\ children' = <<>>
    /\ i' = 0
    /\ members' = <<>>
    /\ servers' = <<>>
    /\ requests' = <<>>
    /\ output' = <<>>
    /\ UNCHANGED <<fnvars, config, space, joined, power>>

Init ==
    /\ call = NoCall /\ ret = NoRet
    /\ config \in Configs
    /\ space \in Spaces
    /\ joined = [r \in RoomIds |-> ProfileOf(r).members]
    /\ power = [r \in RoomIds |-> ProfileOf(r).power]
    /\ run = 1 /\ pc = "start" /\ error = "none"
    /\ children = <<>> /\ i = 0 /\ members = <<>> /\ servers = <<>>
    /\ requests = <<>> /\ output = <<>> /\ clean = FALSE

Next ==
    \/ GetHierarchy
    \/ SkipEntry
    \/ JoinedMembers
    \/ PowerLevels
    \/ PutState
    \/ Return

Spec == Init /\ [][Next]_vars

TwiceNext == Next \/ RunAgain
TwiceSpec == Init /\ [][TwiceNext]_vars

(* ------------------------------------------------------------------ *)
(* Properties of the functions (FnSpec)                                 *)
(* ------------------------------------------------------------------ *)
\* the server part of a well-formed user id, read off its pieces
ServerPart(user_id) == SubSeq(user_id, 3, Len(user_id))
Occurrences(lst, x) == Cardinality({k \in 1..Len(lst) : lst[k] = x})
Returned(fn) == call.fn = fn /\ ret.done /\ ~ret.raised

\* C7: most_common_servers returns at most n servers (n >= 0), each occurring
\* at least min_occurrences times in the list, none twice, and none with a
\* lower count than a qualifying server that was left out; [X, X, Y] with
\* min_occurrences 2 gives [X].
C7_MostCommonServers ==
    Returned("most_common_servers") =>
        LET out == ret.value
            lst == call.lst
        IN /\ Len(out) <= call.n
           /\ \A j \in 1..Len(out) : Occurrences(lst, out[j]) >= call.min_occurrences
           /\ NoDup(out)
           /\ \A j \in 1..Len(out) : \A q \in Range(lst) \ Range(out) :
                 Occurrences(lst, q) >= call.min_occurrences
                    => Occurrences(lst, out[j]) >= Occurrences(lst, q)
           /\ (lst = <<X, X, Y>> /\ call.min_occurrences = 2 /\ call.n >= 1
                 => out = <<X>>)

\* a call that cut off a qualifying server and dropped one below the minimum
C7_Witness ==
    /\ Returned("most_common_servers")
    /\ Len(ret.value) = call.n /\ call.n >= 1
    /\ \E q \in Range(call.lst) \ Range(ret.value) :
          Occurrences(call.lst, q) >= call.min_occurrences
    /\ \E q \in Range(call.lst) : Occurrences(call.lst, q) < call.min_occurrences

\* the effective level of a member under a power-levels content
EffectiveLevel(pl, user_id) ==
    IF "users" \in DOMAIN pl /\ \E j \in 1..Len(pl.users) : pl.users[j][1] = user_id
    THEN pl.users[CHOOSE j \in 1..Len(pl.users) : pl.users[j][1] = user_id][2]
    ELSE IF "users_default" \in DOMAIN pl THEN pl.users_default ELSE 0

\* C8: for a non-empty mapping get_highest_level_members returns [] when the
\* maximum is <= 50 and otherwise exactly the members at the maximum, each
\* once; with a unique maximum above 50 the authority servers of a room are
\* exactly that member's homeserver.
C8_HighestLevelMembers ==
    /\ Returned("get_highest_level_members") =>
          LET d == call.member_levels
              out == ret.value
              top(j) == \A k \in 1..Len(d) : d[k][2] <= d[j][2]
          IN IF \A j \in 1..Len(d) : d[j][2] <= 50
             THEN out = <<>>
             ELSE /\ Range(out) = {d[j][1] : j \in {k \in 1..Len(d) : top(k)}}
                  /\ NoDup(out)
    /\ Returned("via") =>
          LET lvl(u) == EffectiveLevel(call.power_levels, u)
              ms == Range(call.members)
          IN \A u \in ms :
                (lvl(u) > 50 /\ \A v \in ms \ {u} : lvl(v) < lvl(u))
                   => Range(ret.highest_level_servers) = {ServerPart(u)}

\* two members tied at a maximum above 50 are both returned
C8_Witness ==
    /\ Returned("get_highest_level_members")
    /\ Len(ret.value) = 2
    /\ Len(call.member_levels) = 3
    /\ \E j \in 1..3 : call.member_levels[j][2] = 50

\* C6: a server of additional_servers that hosts no member of the room is
\* never in the final via set, with or without the top-up re-run.
C6_AllowListNeedsMember ==
    Returned("via") =>
        \A s \in Range(call.config.additional_servers) :
            (\A j \in 1..Len(call.members) : ServerPart(call.members[j]) # s)
                => s \notin ret.servers

\* the top-up ran, one configured server hosts a member and one does not
C6_Witness ==
    /\ Returned("via")
    /\ ret.topped_up
    /\ \E s \in Range(call.config.additional_servers) :
          \A j \in 1..Len(call.members) : ServerPart(call.members[j]) # s
    /\ \E s \in Range(call.config.additional_servers) : s \in ret.servers

\* C10: with the relaxation flag set the final via set has at least
\* min(optimal_via_servers, distinct member servers) servers, and the top-up
\* re-run removes no server of the candidate set.
C10_TopUpReachesOptimum ==
    (Returned("via") /\ call.config.ignore_requirementrs_to_reach_optimum) =>
        LET distinct == Cardinality({ServerPart(call.members[j]) :
                                        j \in 1..Len(call.members)})
        IN /\ Cardinality(ret.servers) >= Min(call.config.optimal_via_servers, distinct)
           /\ ret.candidate \subseteq ret.servers

\* the re-run added a server and the set still falls short of the optimum
C10_Witness ==
    /\ Returned("via")
    /\ ret.topped_up
    /\ Cardinality(ret.candidate) = 1
    /\ Cardinality(ret.servers) = 2
    /\ call.config.optimal_via_servers = 3

(* ------------------------------------------------------------------ *)
(* Properties of update_via (Spec, TwiceSpec)                           *)
(* ------------------------------------------------------------------ *)
IsPut(r) == r.op = "room_put_state"
PutsFor(c) == {k \in 1..Len(requests) : IsPut(requests[k]) /\ requests[k].child = c}
TextsOf(c) ==
    LET own == SelectSeq(output, LAMBDA l : l.child = c)
    IN [k \in 1..Len(own) |-> own[k].text]
HasLine(c, text) == \E k \in 1..Len(output) : output[k] = Line(c, text)
\* the loop has left entry c behind
Finished(c) == c \in 1..Len(children) /\ (c < i \/ pc = "done")
ComputedSet(c) ==
    ViaSet(config, joined[children[c].state_key], power[children[c].state_key])

\* C1: room_put_state is issued for a room only if the computed set differs
\* from the set of its published via list; when the sets are equal the room
\* is skipped without a write; a written via list has no duplicates.
C1_WriteOnlyOnChange ==
    /\ \A k \in 1..Len(requests) :
          IsPut(requests[k]) =>
             LET r == requests[k]
             IN /\ Range(r.content.via) = ComputedSet(r.child)
                /\ Range(r.content.via) # Range(children[r.child].content.via)
                /\ NoDup(r.content.via)
                /\ r.state_key = children[r.child].state_key
    /\ \A c \in 1..Len(children) : HasLine(c, "skip_match") => PutsFor(c) = {}

\* one room was written with two servers in shuffled order, another room whose
\* published list holds the computed servers in some order was skipped
C1_Witness ==
    /\ pc = "done"
    /\ config.shuffle_order
    /\ \E k \in 1..Len(requests) :
          IsPut(requests[k]) /\ requests[k].ok /\ Len(requests[k].content.via) = 2
    /\ \E c \in 1..Len(children) :
          HasLine(c, "skip_match") /\ Len(children[c].content.via) = 2

\* C5: with dry_run set no room_put_state is ever issued; a differing room is
\* only reported.
C5_DryRunNoPut ==
    config.dry_run =>
        /\ \A k \in 1..Len(requests) : ~IsPut(requests[k])
        /\ pc # "put"
        /\ children # <<>> => space = children

\* a dry run that reported a differing room
C5_Witness ==
    /\ config.dry_run
    /\ pc = "done"
    /\ \E c \in 1..Len(children) : HasLine(c, "dry_run")

\* C3 as stated: a failed power-level fetch is skipped when ignore_errors is
\* set (no update for the room, the run goes on) and aborts the run otherwise.
C3_PowerLevelFailureBranches ==
    \A k \in 1..Len(requests) :
        (requests[k].op = "room_get_state_event" /\ ~requests[k].ok) =>
            IF config.ignore_errors
            THEN pc # "aborted" /\ PutsFor(requests[k].child) = {}
            ELSE pc = "aborted"

\* C4 as stated: after a failed membership fetch or state update the run goes
\* on with ignore_errors set and every later qualifying room has its
\* membership fetched; with ignore_errors unset the run aborts there and no
\* request follows.
C4_FailureBranches ==
    \A k \in 1..Len(requests) :
        (requests[k].op \in {"joined_members", "room_put_state"} /\ ~requests[k].ok) =>
            IF config.ignore_errors
            THEN /\ k = Len(requests) => pc # "aborted"
                 /\ pc \in {"done", "aborted"} =>
                       \A c \in (requests[k].child + 1)..Len(children) :
                           Qualifies(children[c]) =>
                              \E j \in 1..Len(requests) :
                                  /\ requests[j].op = "joined_members"
                                  /\ requests[j].child = c
            ELSE pc = "aborted" /\ k = Len(requests)

\* the same, as long as no power-level fetch fails
C4_WithoutPowerLevelFailure ==
    error # "AttributeError" => C4_FailureBranches

\* C9 as stated: every qualifying entry the loop has left behind produced
\* exactly one line.
C9_OneLinePerRoom ==
    \A c \in 1..Len(children) :
        (Finished(c) /\ Qualifies(children[c])) => Len(TextsOf(c)) = 1

\* C9 amended: a skipped room (already matching, or membership failure
\* ignored) produces one line; a dry run, a successful update and an ignored
\* update failure produce three (status, before, after); other entries none.
C9_LinesPerRoom ==
    \A c \in 1..Len(children) :
        Finished(c) =>
            LET texts == TextsOf(c)
            IN IF ~Qualifies(children[c]) THEN texts = <<>>
               ELSE \/ texts \in {<<"skip_match">>, <<"skip_error">>}
                    \/ /\ texts \in {<<st, "before", "after">> :
                                         st \in {"dry_run", "updated", "could_not_update"}}
                       /\ texts[1] = "dry_run" <=> config.dry_run
                       /\ texts[1] = "updated" <=> \E k \in PutsFor(c) : requests[k].ok
                       /\ texts[1] = "could_not_update" <=>
                              \E k \in PutsFor(c) : ~requests[k].ok

\* a run with an ignored update failure, a skipped room and another entry
C9_Witness ==
    /\ pc = "done"
    /\ \E c \in 1..Len(children) : TextsOf(c) = <<"could_not_update", "before", "after">>
    /\ \E c \in 1..Len(children) : TextsOf(c) = <<"skip_match">>
    /\ \E c \in 1..Len(children) : ~Qualifies(children[c])

NoWriteReported ==
    /\ \A k \in 1..Len(requests) : ~IsPut(requests[k])
    /\ \A k \in 1..Len(output) :
          output[k].text \notin {"dry_run", "updated", "could_not_update"}
    /\ pc # "put"

\* C2 as stated: a second run with the same configuration and unchanged rooms
\* reports every room it compares as matching and issues no update (taken
\* here for a first run whose requests all succeeded).
C2_SecondRunNoWrites == (run >= 2 /\ clean) => NoWriteReported

\* C2 amended: the same, when dry_run is unset and the run before ended with
\* every request answered successfully.
C2_SecondRunAfterCleanRun ==
    (run >= 2 /\ clean /\ ~config.dry_run) =>
        /\ NoWriteReported
        /\ \A c \in 1..Len(children) :
              (Finished(c) /\ Qualifies(children[c])) =>
                  TextsOf(c) \in {<<"skip_match">>, <<"skip_error">>}

\* a second run that found a room matching a list the first run had written
C2_Witness ==
    /\ run = 2 /\ clean /\ ~config.dry_run
    /\ pc = "done"
    /\ \E c \in 1..Len(children) :
          /\ HasLine(c, "skip_match")
          /\ children[c].content.via \notin Vias

====
